---- MODULE Spec2Model ----
(***************************************************************************)
(* Model of the email notification service:                                *)
(*   - CircuitBreaker            (src/src/circuit_breaker.py)              *)
(*   - AsyncEmailConsumer        (src/src/consumer.py) with the Redis      *)
(*     idempotency ledger (src/src/redis_client.py), the email_logs table  *)
(*     (src/src/models.py) and the SMTP sender (src/src/email_sender.py)   *)
(*   - TemplateService/Renderer  (src/src/template_service/*.py)           *)
(*                                                                         *)
(* The specifications share one set of variables:                          *)
(*   SpecCB    one breaker used by concurrent callers                      *)
(*   SpecCBSeq one breaker used by one caller at a time                    *)
(*   SpecPipe  queue consumers (one breaker per worker process)            *)
(*   SpecTpl   the template store: create_template and update_template    *)
(*   SpecRender the template store: create_template and render_template   *)
(*   SpecNorm  normalisation and validation of queue message bodies       *)
(***************************************************************************)
EXTENDS Integers, Sequences, FiniteSets, TLC

\* ------------------------------------------------------------------ bounds

\* settings.circuit_breaker_failure_threshold (5 in config.py), scaled down
failure_threshold == 2
\* settings.circuit_breaker_timeout (60 s in config.py), in clock ticks
timeout == 2
\* settings.circuit_breaker_half_open_attempts
half_open_attempts == 2
\* settings.max_retry_attempts (3 in config.py), scaled down
max_retry_attempts == 2
\* the clock stops here
MaxTime == 3
\* concurrent callers of one breaker
NCallers == 2

Callers == 1..NCallers

\* concurrent update_template requests (database sessions)
NSessions == 2
\* update_template is not started on a row of this version or above
MaxVersion == 3

Sessions == 1..NSessions

\* messages ever published to email.queue
MaxPublish == 3

\* the service starts one consumer thread ("email-consumer"), which handles
\* the messages of email.queue one after the other
Workers == {"email-consumer"}

\* ------------------------------------------------------- circuit breaker

CLOSED == "closed"
OPEN == "open"
HALF_OPEN == "half_open"

CircuitState == {CLOSED, OPEN, HALF_OPEN}

\* CircuitBreaker.__init__ : the state after construction at time t
NewBreaker(t) ==
    [state |-> CLOSED, failure_count |-> 0, success_count |-> 0,
     last_failure_time |-> 0, last_state_change_time |-> t]

TransitionToOpen(b, t) ==
    [b EXCEPT !.state = OPEN, !.last_state_change_time = t]

\* mutant of TransitionToHalfOpen: the counters are kept
TransitionToHalfOpenKeepCounts(b, t) ==
    [b EXCEPT !.state = HALF_OPEN, !.last_state_change_time = t]

TransitionToHalfOpen(b, t) ==
    [b EXCEPT !.state = HALF_OPEN, !.success_count = 0, !.failure_count = 0,
              !.last_state_change_time = t]

\* mutant of TransitionToClosed: closes without resetting success_count
TransitionToClosedKeepSuccesses(b, t) ==
    [b EXCEPT !.state = CLOSED, !.failure_count = 0,
              !.last_state_change_time = t]

TransitionToClosed(b, t) ==
    [b EXCEPT !.state = CLOSED, !.failure_count = 0, !.success_count = 0,
              !.last_state_change_time = t]

\* mutant of TimeoutElapsed: probes one tick early
TimeoutElapsedEarly(b, t) == t - b.last_failure_time >= timeout - 1

TimeoutElapsed(b, t) == t - b.last_failure_time >= timeout

\* _check_circuit_state: raised = CircuitBreakerOpenError, cb = breaker after
CheckCircuitState(b, t) ==
    IF b.state = OPEN
    THEN IF TimeoutElapsed(b, t)
         THEN [raised |-> FALSE, cb |-> TransitionToHalfOpen(b, t)]
         ELSE [raised |-> TRUE, cb |-> b]
    ELSE [raised |-> FALSE, cb |-> b]

\* mutant of OnSuccess: a success in CLOSED keeps failure_count
OnSuccessKeepFailures(b, t) ==
    IF b.state = HALF_OPEN
    THEN LET b1 == [b EXCEPT !.success_count = b.success_count + 1]
         IN  IF b1.success_count >= half_open_attempts
             THEN TransitionToClosed(b1, t)
             ELSE b1
    ELSE b

\* mutant of OnSuccess: the first success in HALF_OPEN closes the circuit
OnSuccessCloseEarly(b, t) ==
    IF b.state = HALF_OPEN
    THEN TransitionToClosed(b, t)
    ELSE [b EXCEPT !.failure_count = 0]

OnSuccess(b, t) ==
    IF b.state = HALF_OPEN
    THEN LET b1 == [b EXCEPT !.success_count = b.success_count + 1]
         IN  IF b1.success_count >= half_open_attempts
             THEN TransitionToClosed(b1, t)
             ELSE b1
    ELSE [b EXCEPT !.failure_count = 0]

\* mutant of OnFailure: a failure in HALF_OPEN does not reopen the circuit
OnFailureNoReopen(b, t) ==
    LET b1 == [b EXCEPT !.failure_count = b.failure_count + 1,
                        !.last_failure_time = t]
    IN  IF b1.state = CLOSED /\ b1.failure_count >= failure_threshold
        THEN TransitionToOpen(b1, t)
        ELSE b1

OnFailure(b, t) ==
    LET b1 == [b EXCEPT !.failure_count = b.failure_count + 1,
                        !.last_failure_time = t]
    IN  IF b1.state = CLOSED
        THEN IF b1.failure_count >= failure_threshold
             THEN TransitionToOpen(b1, t)
             ELSE b1
        ELSE IF b1.state = HALF_OPEN
             THEN TransitionToOpen(b1, t)
             ELSE b1

\* mutant of ResetBreaker: the counters are zeroed, the state is kept
ResetBreakerKeepState(b) ==
    [b EXCEPT !.failure_count = 0, !.success_count = 0]

\* reset(): last_state_change_time is not touched
ResetBreaker(b) ==
    [b EXCEPT !.state = CLOSED, !.failure_count = 0, !.success_count = 0]


\* ------------------------------------------------------- template store

\* None and the empty text are the same to "x or y" and "if body_text:"
None == <<>>

Codes == {"welcome", "order"}
Langs == {"en", "fr"}
Names == {"name", "order_id"}

\* A text is a sequence of tokens: literal text, a bare placeholder {{ name }},
\* or another Jinja reference to a name ({{ name.attr }}, {% if name %}, ...).
Lit == [kind |-> "lit", name |-> ""]
Var(n) == [kind |-> "var", name |-> n]
Expr(n) == [kind |-> "expr", name |-> n]

\* the subject, body_html and body_text a template is created with
Contents ==
    { [subject |-> <<Lit, Var("name")>>,
       body_html |-> <<Var("name"), Var("order_id"), Var("name")>>,
       body_text |-> None],
      [subject |-> <<Lit>>,
       body_html |-> <<Lit, Expr("order_id")>>,
       body_text |-> None],
      [subject |-> <<Lit>>,
       body_html |-> <<Var("name")>>,
       body_text |-> <<Var("order_id")>>] }

\* update_data: None leaves the field as it is
Patches ==
    { [subject |-> <<Lit>>, body_html |-> None, body_text |-> None,
       status |-> ""],
      [subject |-> None, body_html |-> <<Lit, Expr("order_id")>>,
       body_text |-> <<Var("order_id")>>, status |-> "archived"] }

\* Column(Integer, default=1)
DefaultVersion == 1

\* "x or y" on optional fields
OrElse(x, y) == IF x = None THEN y ELSE x

\* f"{subject} {body_html} {body_text or ''}"
AllText(subject, body_html, body_text) ==
    subject \o body_html \o OrElse(body_text, <<>>)

\* extract_variables: re.findall(r'{{\s*(\w+)\s*}}', text), duplicates removed
ExtractVariables(text) ==
    { text[i].name : i \in { j \in DOMAIN text : text[j].kind = "var" } }

\* names a strict (StrictUndefined) Jinja render of the text looks up
ReferencedNames(text) ==
    { text[i].name : i \in { j \in DOMAIN text : text[j].kind # "lit" } }

\* the text holds nothing but literal text and bare {{ name }} placeholders
IsPlain(text) == \A i \in DOMAIN text : text[i].kind \in {"lit", "var"}

\* TemplateRenderer.render_template: subject, body_html and, when present,
\* body_text are rendered; an undefined reference raises
RenderFields(subject, body_html, body_text, provided) ==
    /\ ReferencedNames(subject) \subseteq provided
    /\ ReferencedNames(body_html) \subseteq provided
    /\ (body_text # None => ReferencedNames(body_text) \subseteq provided)

\* rows selected by template_code, language and is_current == True
CurrentRows(rows, code, lang) ==
    { r \in rows : r.template_code = code /\ r.language = lang /\ r.is_current }

RowsOf(rows, code, lang) ==
    { r \in rows : r.template_code = code /\ r.language = lang }

\* mutant of UniqueViolation: template_code carries no unique constraint
UniqueViolationNone(rows, code) == FALSE

\* template_code = Column(String, unique=True): an INSERT of a second row with
\* the same template_code raises IntegrityError at commit
UniqueViolation(rows, code) == \E r \in rows : r.template_code = code

\* mutant of MissingVars: reports every declared variable as missing
MissingVarsAll(declared, provided) ==
    IF declared \subseteq provided THEN {} ELSE declared

\* set(template.variables or []) - set(variables.keys())
MissingVars(declared, provided) == declared \ provided


\* ------------------------------------------------------ consumer pipeline

\* EmailStatus
PROCESSING == "processing"
SENT == "sent"
FAILED == "failed"

\* Queue message bodies: request_id ("" when the key is absent), whether
\* DirectEmailRequest(**data) validates (to_email, subject, content present),
\* and the template_code key ("" when absent), which DirectEmailRequest does
\* not declare and process_message does not read
Payloads ==
    { [request_id |-> "r1", valid |-> TRUE, template_code |-> ""],
      [request_id |-> "r2", valid |-> TRUE, template_code |-> "welcome"],
      [request_id |-> "", valid |-> TRUE, template_code |-> ""],
      [request_id |-> "r1", valid |-> FALSE, template_code |-> ""] }

NoMsg == [request_id |-> "-", valid |-> FALSE, template_code |-> ""]

\* data.get("request_id", "unknown")
RequestIdOf(data) ==
    IF data.request_id = "" THEN "unknown" ELSE data.request_id

RequestIds == { RequestIdOf(d) : d \in Payloads }

\* select(EmailLog).where(EmailLog.request_id == request_id)
LogsOf(logs, rid) == { r \in logs : r.request_id = rid }

\* EmailLog.request_id is unique=True: a second INSERT raises IntegrityError
LogUniqueViolation(logs, rid) == LogsOf(logs, rid) # {}

\* a nullable column that was never assigned
NULL == "NULL"

\* EmailLog(...) as _process_email_async adds it; retry_count defaults to 0,
\* sent_at and last_error_at have no default
NewEmailLog(id, rid) ==
    [id |-> id, request_id |-> rid, status |-> PROCESSING,
     retry_count |-> 0, error_message |-> "",
     sent_at |-> NULL, last_error_at |-> NULL]

\* the except-Exception handler of _process_email_async on the selected row
MarkFailed(row, err) ==
    [row EXCEPT !.status = FAILED, !.error_message = err,
                !.retry_count = row.retry_count + 1]

\* mutant of IsProcessed: an unavailable Redis reports the request as seen
IsProcessedFailClosed(up, keys, rid) == ~up \/ rid \in keys

\* RedisClient.is_processed: False when not connected or on a Redis error
IsProcessed(up, keys, rid) == up /\ rid \in keys

\* RedisClient.mark_as_processed: the key set after the call
MarkAsProcessed(up, keys, rid) == IF up THEN keys \cup {rid} ELSE keys

\* _handle_failure: the count the decision is taken on ("Temporary fix")
RetryCountForDecision(row_retry_count) == 0

\* mutant of AfterCircuitOpen: CircuitBreakerOpenError falls into the
\* except-Exception handler
AfterCircuitOpenAsError == "fail_update"

\* where _process_email_async goes on CircuitBreakerOpenError: return False
AfterCircuitOpen == "handle_failure"

\* where _process_email_async goes when adding or committing the EmailLog row
\* raises: the except handler, never the send
AfterInsertFailureSend == "send"

AfterInsertFailure == "fail_update"

\* mutant of AfterDuplicate: a duplicate goes on to the insert
AfterDuplicateInsert == "insert"

\* where _process_email_async goes when is_processed answers True: return True
AfterDuplicate == "ack"

\* history kept per message: whether Redis answered the last ledger call
\* ("up") or the client was not connected or the call raised ("down")
LedgerAnswer(up) == IF up THEN "up" ELSE "down"

IdleWorker ==
    [pc |-> "idle", msg |-> NoMsg, log_id |-> 0, outcome |-> "",
     err |-> "", disp |-> "", wrote |-> FALSE, sentBefore |-> FALSE,
     ledger |-> ""]

\* ------------------------------------------- queue message normalisation

\* a key that the message body does not carry (None after parsing)
Absent == "<absent>"

\* message bodies: per key, absent or one of a few values
QueueMessages ==
    [to_email : {Absent, "to@x.io"},
     user_email : {Absent, "user@x.io"},
     email : {Absent, "email@x.io"},
     subject : {Absent, "", "Subject"},
     title : {Absent, "Title"},
     content : {Absent, "Content"},
     message : {Absent, "Message"},
     body : {Absent, "Body"}]

\* Python truth value of an optional string: None and "" are false
Falsy(v) == v = Absent \/ v = ""

\* a or b
Or(a, b) == IF Falsy(a) THEN b ELSE a

\* QueueEmailMessage.to_direct_email_request
ToDirectEmailRequest(m) ==
    LET recipient_email == Or(m.to_email, Or(m.user_email, m.email))
        email_subject == Or(m.subject, Or(m.title, "Notification"))
        email_content ==
            Or(m.content, Or(m.message, Or(m.body, "You have a new notification")))
    IN  IF Falsy(recipient_email)
        THEN [error |-> "ValueError", to_email |-> Absent,
              subject |-> Absent, content |-> Absent]
        ELSE [error |-> "", to_email |-> recipient_email,
              subject |-> email_subject, content |-> email_content]

\* process_message: DirectEmailRequest(**data) validates when the required
\* fields to_email, subject and content are present; other keys are ignored
ConsumerAccepts(m) ==
    m.to_email # Absent /\ m.subject # Absent /\ m.content # Absent

VARIABLES
    now,        \* time.time()
    cb,         \* the CircuitBreaker instance of SpecCB / SpecCBSeq
    callers,    \* per caller of call_async: "idle" or "running" (awaiting func)
    ev,         \* last breaker event: kind, caller, and a bit flipped per event
    consec,     \* history: failures recorded since the last success, reset or close
    openedFrom, \* history: the state _transition_to_open was last called in
    hoAdmitted, \* history: calls admitted in the current HALF_OPEN period
    hoSuccesses, \* history: successes recorded in the HALF_OPEN period entered last
    templates,  \* committed rows of email_templates
    history,    \* committed rows of template_versions
    nextId,     \* next primary key
    upd,        \* per session: an update_template between its two commits
    updOutcome, \* how the update_template that ended last ended
    createResult, \* how the last create_template call ended
    renderResult, \* what the last render_template call returned or raised
    queue,      \* email.queue: messages ready for delivery, head first
    dlq,        \* email.failed.queue
    published,  \* number of messages published so far
    wk,         \* per worker: where process_message is, and the message it holds
    wcb,        \* per worker process: email_sender.circuit_breaker
    email_logs, \* committed rows of email_logs
    nextLogId,  \* next primary key of email_logs
    processed,  \* Redis keys processed:<request_id>
    expired,    \* history: request_ids whose Redis key has expired
    transportCalls,  \* history: SMTP sends invoked, per request_id
    sentTransitions, \* history: transitions of a row to SENT, per request_id
    norm        \* the last message body normalised and validated, with results

cbVars == <<cb, callers, ev, consec, openedFrom, hoAdmitted, hoSuccesses>>

tplVars == <<templates, history, nextId, upd, updOutcome, createResult, renderResult>>

pipeVars == <<queue, dlq, published, wk, wcb, email_logs, nextLogId, processed, expired, transportCalls, sentTransitions, norm>>

vars == <<now, cb, callers, ev, consec, openedFrom, hoAdmitted, hoSuccesses,
          templates, history, nextId, upd, updOutcome, createResult, renderResult,
          queue, dlq, published, wk, wcb, email_logs, nextLogId, processed, expired, transportCalls, sentTransitions, norm>>

\* what the wrapped operation can return, and what it can raise
OpResults == {"True", "None"}
OpErrors == {"SMTPException", "TimeoutError"}

\* mutant of Reraise: the caller gets a CircuitBreakerOpenError
ReraiseAsCircuitOpen(e) == "CircuitBreakerOpenError"

\* call_async, except Exception as e: ... raise e
Reraise(e) == e

\* op is what the wrapped operation returned or raised, out is what the call
\* returned or raised to its caller, from is the state the breaker was in
EventOut(kind, c, op, out) ==
    [kind |-> kind, caller |-> c, bit |-> 1 - ev.bit, op |-> op, out |-> out,
     from |-> cb.state]

Event(kind, c) == EventOut(kind, c, "", "")

InitCB ==
    /\ cb = NewBreaker(0)
    /\ callers = [c \in Callers |-> "idle"]
    /\ ev = [kind |-> "none", caller |-> 0, bit |-> 0, op |-> "", out |-> "",
             from |-> CLOSED]
    /\ consec = 0
    /\ openedFrom = "none"
    /\ hoAdmitted = 0
    /\ hoSuccesses = 0

IdleUpdate == [pc |-> "idle"]
NoOutcome == [kind |-> "none", code |-> "", language |-> ""]

InitTpl ==
    /\ templates = {}
    /\ history = {}
    /\ nextId = 1
    /\ upd = [s \in Sessions |-> IdleUpdate]
    /\ updOutcome = NoOutcome
    /\ createResult = [kind |-> "none", code |-> "", language |-> "",
                       hadCurrent |-> FALSE, hadRows |-> FALSE]
    /\ renderResult = [kind |-> "none", declared |-> {}, plain |-> TRUE,
                       provided |-> {}, missing |-> {}]

InitPipe ==
    /\ queue = <<>>
    /\ dlq = <<>>
    /\ published = 0
    /\ wk = [w \in Workers |-> IdleWorker]
    /\ wcb = [w \in Workers |-> NewBreaker(0)]
    /\ email_logs = {}
    /\ nextLogId = 1
    /\ processed = {}
    /\ expired = {}
    /\ transportCalls = [r \in RequestIds |-> 0]
    /\ sentTransitions = [r \in RequestIds |-> 0]
    /\ norm = [kind |-> "none"]

Init ==
    /\ now = 0
    /\ InitCB
    /\ InitTpl
    /\ InitPipe

\* time passes
Tick ==
    /\ now < MaxTime
    /\ now' = now + 1
    /\ UNCHANGED <<cbVars, tplVars, pipeVars>>

\* call_async up to the await of func: _check_circuit_state, then func starts
CallAdmit(c) ==
    /\ callers[c] = "idle"
    /\ LET r == CheckCircuitState(cb, now)
       IN  /\ cb' = r.cb
           /\ IF r.raised
              THEN /\ callers' = callers
                   /\ ev' = EventOut("rejected", c, "", "CircuitBreakerOpenError")
              ELSE /\ callers' = [callers EXCEPT ![c] = "running"]
                   /\ ev' = Event("admitted", c)
           /\ hoAdmitted' = IF r.raised \/ r.cb.state # HALF_OPEN
                            THEN hoAdmitted
                            ELSE IF cb.state = OPEN THEN 1 ELSE hoAdmitted + 1
           /\ hoSuccesses' = IF cb.state = OPEN /\ r.cb.state = HALF_OPEN
                             THEN 0 ELSE hoSuccesses
    /\ UNCHANGED <<now, consec, openedFrom, tplVars, pipeVars>>

\* call_async after func returned result: _on_success, return result
CallSuccess(c, result) ==
    /\ callers[c] = "running"
    /\ cb' = OnSuccess(cb, now)
    /\ callers' = [callers EXCEPT ![c] = "idle"]
    /\ ev' = EventOut("success", c, result, result)
    /\ consec' = 0
    /\ hoAdmitted' = IF cb'.state = HALF_OPEN THEN hoAdmitted ELSE 0
    /\ hoSuccesses' = IF cb.state = HALF_OPEN THEN hoSuccesses + 1 ELSE hoSuccesses
    /\ UNCHANGED <<now, openedFrom, tplVars, pipeVars>>

\* call_async after func raised e: _on_failure, then raise e
CallFailure(c, e) ==
    /\ callers[c] = "running"
    /\ cb' = OnFailure(cb, now)
    /\ callers' = [callers EXCEPT ![c] = "idle"]
    /\ ev' = EventOut("failure", c, e, Reraise(e))
    /\ consec' = consec + 1
    /\ openedFrom' = IF cb'.state = OPEN /\ cb.state # OPEN THEN cb.state ELSE openedFrom
    /\ hoAdmitted' = IF cb'.state = HALF_OPEN THEN hoAdmitted ELSE 0
    /\ hoSuccesses' = IF cb.state = HALF_OPEN THEN 0 ELSE hoSuccesses
    /\ UNCHANGED <<now, tplVars, pipeVars>>

\* reset()
Reset ==
    /\ cb' = ResetBreaker(cb)
    /\ ev' = Event("reset", 0)
    /\ consec' = 0
    /\ hoAdmitted' = 0
    /\ hoSuccesses' = 0
    /\ UNCHANGED <<now, callers, openedFrom, tplVars, pipeVars>>

NoneRunning == \A c \in Callers : callers[c] = "idle"

NextCB ==
    \/ Tick
    \/ \E c \in Callers : CallAdmit(c)
    \/ \E c \in Callers, result \in OpResults : CallSuccess(c, result)
    \/ \E c \in Callers, e \in OpErrors : CallFailure(c, e)
    \/ Reset

\* one call at a time: a call is admitted only when no other is in flight
NextCBSeq ==
    \/ Tick
    \/ \E c \in Callers : NoneRunning /\ CallAdmit(c)
    \/ \E c \in Callers, result \in OpResults : CallSuccess(c, result)
    \/ \E c \in Callers, e \in OpErrors : CallFailure(c, e)
    \/ NoneRunning /\ Reset

SpecCB == Init /\ [][NextCB]_vars

SpecCBSeq == Init /\ [][NextCBSeq]_vars

\* ------------------------------------------------ breaker: claims C1, C2

\* C1 (as stated): after any sequence of calls made one at a time, the breaker
\* is Open if and only if the consecutive recorded failures since the last
\* success, reset or close have reached failure_threshold.
C1_OpenIffThresholdReached ==
    NoneRunning => ((cb.state = OPEN) <=> (consec >= failure_threshold))

\* C1 (amended): after any sequence of calls made one at a time, the breaker is
\* Open whenever the consecutive recorded failures have reached
\* failure_threshold, and it is Open only if they have, or if it was reopened
\* by a single failure recorded in HalfOpen.
C1_OpenIffThresholdOrProbeFailure ==
    NoneRunning =>
        /\ (consec >= failure_threshold => cb.state = OPEN)
        /\ (cb.state = OPEN =>
                consec >= failure_threshold \/ openedFrom = HALF_OPEN)

\* C1 witness: Open after a HalfOpen success followed by one HalfOpen failure
C1_Witness ==
    /\ NoneRunning
    /\ cb.state = OPEN
    /\ openedFrom = HALF_OPEN
    /\ consec < failure_threshold

\* C2: while the breaker is Open and less than timeout has elapsed since
\* last_failure_time, every call attempt is rejected with CircuitBreakerOpenError
\* without starting the wrapped operation, and leaves the breaker unchanged.
C2_OpenRejectsWithoutInvoking ==
    [][ ( /\ cb.state = OPEN
          /\ now - cb.last_failure_time < timeout
          /\ ev'.bit # ev.bit
          /\ ev'.kind \in {"admitted", "rejected"} )
        => ( /\ ev'.kind = "rejected"
             /\ callers' = callers
             /\ cb' = cb ) ]_vars

\* C2 witness: a call was just rejected by an Open breaker inside its timeout
C2_Witness ==
    /\ ev.kind = "rejected"
    /\ cb.state = OPEN
    /\ now - cb.last_failure_time < timeout

\* ------------------------------------------------ template store: actions

\* EmailTemplate(...) as create_template builds it; version and is_current
\* take the column defaults
NewTemplateRow(id, code, lang, subject, body_html, body_text) ==
    [id |-> id, template_code |-> code, language |-> lang,
     subject |-> subject, body_html |-> body_html, body_text |-> body_text,
     variables |-> ExtractVariables(AllText(subject, body_html, body_text)),
     status |-> "active", version |-> DefaultVersion, is_current |-> TRUE]

\* the new EmailTemplate update_template builds from the current row and the patch
NextVersionRow(id, cur, patch) ==
    LET subject == OrElse(patch.subject, cur.subject)
        body_html == OrElse(patch.body_html, cur.body_html)
        body_text == OrElse(patch.body_text, cur.body_text)
    IN  [id |-> id, template_code |-> cur.template_code, language |-> cur.language,
         subject |-> subject, body_html |-> body_html, body_text |-> body_text,
         variables |-> ExtractVariables(AllText(subject, body_html, body_text)),
         status |-> IF patch.status = "" THEN cur.status ELSE patch.status,
         version |-> cur.version + 1, is_current |-> TRUE]

\* the TemplateVersion snapshot of the row being replaced
VersionHistoryRow(id, cur) ==
    [id |-> id, template_code |-> cur.template_code, version |-> cur.version,
     subject |-> cur.subject, body_html |-> cur.body_html,
     body_text |-> cur.body_text, variables |-> cur.variables]

\* create_template: ValueError when a current row of the pair exists;
\* otherwise the INSERT, which the unique constraint refuses (IntegrityError)
\* when any row has the template_code
CreateTemplate(code, lang, subject, body_html, body_text) ==
    LET hadCurrent == CurrentRows(templates, code, lang) # {}
        kind == IF hadCurrent THEN "duplicate"
                ELSE IF UniqueViolation(templates, code) THEN "insert_failed"
                ELSE "ok"
    IN  /\ createResult' =
              [kind |-> kind, code |-> code, language |-> lang,
               hadCurrent |-> hadCurrent,
               hadRows |-> RowsOf(templates, code, lang) # {}]
        /\ IF kind = "ok"
           THEN /\ templates' = templates \cup
                      {NewTemplateRow(nextId, code, lang, subject, body_html,
                                      body_text)}
                /\ nextId' = nextId + 1
           ELSE UNCHANGED <<templates, nextId>>
        /\ UNCHANGED <<now, cbVars, pipeVars, history, upd, updOutcome,
                       renderResult>>

\* update_template up to the answer of its select: the current row is loaded
\* into the session, or the call ends with "Template not found"
UpdateBegin(s, code, lang, patch) ==
    /\ upd[s].pc = "idle"
    /\ LET cur == CurrentRows(templates, code, lang)
       IN  IF Cardinality(cur) = 1
           THEN LET c == CHOOSE r \in cur : TRUE
                IN  /\ c.version < MaxVersion
                    /\ upd' = [upd EXCEPT ![s] =
                                 [pc |-> "selected", cur |-> c, patch |-> patch]]
                    /\ UNCHANGED updOutcome
           ELSE /\ updOutcome' =
                      [kind |-> IF cur = {} THEN "not_found" ELSE "error",
                       code |-> code, language |-> lang]
                /\ UNCHANGED upd
    /\ UNCHANGED <<now, cbVars, pipeVars, createResult, templates, history, nextId,
                   renderResult>>

\* update_template, first commit: the row loaded by the select is written
\* with is_current = False (an UPDATE by primary key, whatever the row holds
\* by now)
UpdateFlip(s) ==
    /\ upd[s].pc = "selected"
    /\ templates' = { IF r.id = upd[s].cur.id
                      THEN [r EXCEPT !.is_current = FALSE] ELSE r
                      : r \in templates }
    /\ upd' = [upd EXCEPT ![s] = [@ EXCEPT !.pc = "flipped"]]
    /\ UNCHANGED <<now, cbVars, pipeVars, createResult, history, nextId,
                   updOutcome, renderResult>>

\* update_template from the first commit on: the new row and the history row
\* are added and committed together; IntegrityError rolls both back
UpdateFinish(s) ==
    /\ upd[s].pc = "flipped"
    /\ LET c == upd[s].cur
           failed == UniqueViolation(templates, c.template_code)
       IN  /\ IF failed
              THEN UNCHANGED <<templates, history, nextId>>
              ELSE /\ templates' = templates \cup
                          {NextVersionRow(nextId, c, upd[s].patch)}
                   /\ history' = history \cup {VersionHistoryRow(nextId + 1, c)}
                   /\ nextId' = nextId + 2
           /\ updOutcome' =
                 [kind |-> IF failed THEN "insert_failed" ELSE "ok",
                  code |-> c.template_code, language |-> c.language]
    /\ upd' = [upd EXCEPT ![s] = IdleUpdate]
    /\ UNCHANGED <<now, cbVars, pipeVars, createResult, renderResult>>

\* the process dies between the two commits of update_template
UpdateCrash(s) ==
    /\ upd[s].pc = "flipped"
    /\ updOutcome' =
          [kind |-> "crashed", code |-> upd[s].cur.template_code,
           language |-> upd[s].cur.language]
    /\ upd' = [upd EXCEPT ![s] = IdleUpdate]
    /\ UNCHANGED <<now, cbVars, pipeVars, createResult, templates, history, nextId, renderResult>>

\* TemplateService.render_template
RenderTemplate(code, lang, provided) ==
    /\ LET cur == CurrentRows(templates, code, lang)
       IN  IF Cardinality(cur) = 1
           THEN LET r == CHOOSE x \in cur : TRUE
                    missing == MissingVars(r.variables, provided)
                IN  renderResult' =
                      [kind |-> IF missing # {} THEN "missing"
                                ELSE IF RenderFields(r.subject, r.body_html,
                                                     r.body_text, provided)
                                     THEN "ok" ELSE "render_error",
                       declared |-> r.variables,
                       plain |-> IsPlain(
                           AllText(r.subject, r.body_html, r.body_text)),
                       provided |-> provided,
                       missing |-> missing]
           ELSE renderResult' =
                      [kind |-> IF cur = {} THEN "not_found" ELSE "error",
                       declared |-> {}, plain |-> TRUE,
                       provided |-> provided, missing |-> {}]
    /\ UNCHANGED <<now, cbVars, pipeVars, createResult, templates, history, nextId, upd, updOutcome>>

NextTpl ==
    \/ \E code \in Codes, lang \in Langs, c \in Contents :
            CreateTemplate(code, lang, c.subject, c.body_html, c.body_text)
    \/ \E s \in Sessions, code \in Codes, lang \in Langs, patch \in Patches :
            UpdateBegin(s, code, lang, patch)
    \/ \E s \in Sessions : UpdateFlip(s)
    \/ \E s \in Sessions : UpdateFinish(s)
    \/ \E s \in Sessions : UpdateCrash(s)

\* templates are created and rendered
NextRender ==
    \/ \E code \in Codes, lang \in Langs, c \in Contents :
            CreateTemplate(code, lang, c.subject, c.body_html, c.body_text)
    \/ \E code \in Codes, lang \in Langs, provided \in SUBSET Names :
            RenderTemplate(code, lang, provided)

SpecTpl == Init /\ [][NextTpl]_vars

SpecRender == Init /\ [][NextRender]_vars

\* no update_template is between its two commits
NoUpdateRunning == \A s \in Sessions : upd[s].pc = "idle"

\* the (code, language) pairs that have a row
ExistingPairs ==
    { <<r.template_code, r.language>> : r \in templates }

\* ------------------------------------------- template store: claims C5-C8

OneCurrent(code, lang) == Cardinality(CurrentRows(templates, code, lang)) = 1

\* C5: after any sequence of create_template and update_template operations,
\* every (code, language) pair that has a row has exactly one row with
\* is_current = TRUE.
C5_ExactlyOneCurrent ==
    NoUpdateRunning => \A p \in ExistingPairs : OneCurrent(p[1], p[2])

\* C6: an update_template that crashed, or whose insert of the new row failed,
\* after the old row was committed with is_current = FALSE leaves exactly one
\* current row for its (code, language).
C6_FailedUpdateKeepsOneCurrent ==
    updOutcome.kind \in {"crashed", "insert_failed"}
        => OneCurrent(updOutcome.code, updOutcome.language)

Rendered == renderResult.kind \in {"ok", "missing", "render_error"}

\* C8 (as stated): for a current template with declared variables V and provided
\* keys P, render_template succeeds if and only if V is a subset of P, and a
\* missing-variables failure reports exactly V minus P.
C8_RenderSucceedsIffDeclaredProvided ==
    Rendered =>
        /\ (renderResult.kind = "ok"
                <=> renderResult.declared \subseteq renderResult.provided)
        /\ (renderResult.kind = "missing"
                => renderResult.missing
                     = renderResult.declared \ renderResult.provided)

\* C8 (amended): render_template fails for missing variables if and only if V is
\* not a subset of P, and then reports exactly V minus P; it succeeds only if V
\* is a subset of P, and does succeed then when the template holds nothing but
\* literal text and bare placeholders.
C8_MissingIffDeclaredNotProvided ==
    Rendered =>
        /\ (renderResult.kind = "missing"
                <=> ~(renderResult.declared \subseteq renderResult.provided))
        /\ (renderResult.kind = "missing"
                => renderResult.missing
                     = renderResult.declared \ renderResult.provided)
        /\ (renderResult.kind = "ok"
                => renderResult.declared \subseteq renderResult.provided)
        /\ (renderResult.declared \subseteq renderResult.provided
              /\ renderResult.plain
                => renderResult.kind = "ok")

\* C8 witness: every declared variable was provided and rendering still raised
C8_Witness ==
    /\ renderResult.kind = "render_error"
    /\ renderResult.declared \subseteq renderResult.provided

\* ------------------------------------------------------ consumer: actions

Rid(w) == RequestIdOf(wk[w].msg)

\* a producer publishes a message to email.queue
Publish(m) ==
    /\ published < MaxPublish
    /\ published' = published + 1
    /\ queue' = Append(queue, m)
    /\ UNCHANGED <<now, norm, expired, cbVars, tplVars, dlq, wk, wcb, email_logs, nextLogId,
                   processed, transportCalls, sentTransitions>>

\* start_consuming takes the next message (prefetch_count = 1);
\* process_message decodes it and validates DirectEmailRequest(**data)
Receive(w) ==
    /\ wk[w].pc = "idle"
    /\ queue # <<>>
    /\ LET m == Head(queue)
       IN  /\ queue' = Tail(queue)
           /\ wk' = [wk EXCEPT ![w] =
                 [IdleWorker EXCEPT
                    !.msg = m,
                    !.pc = IF m.valid THEN "check" ELSE "reject",
                    !.outcome = IF m.valid THEN "" ELSE "malformed",
                    !.sentBefore = \E r \in LogsOf(email_logs, RequestIdOf(m)) :
                                       r.status = SENT]]
    /\ UNCHANGED <<now, norm, expired, cbVars, tplVars, dlq, published, wcb, email_logs,
                   nextLogId, processed, transportCalls,
                   sentTransitions>>

\* _process_email_async step 1: the idempotency check; redisUp is whether
\* Redis is connected and answers this call
CheckProcessed(w, redisUp) ==
    /\ wk[w].pc = "check"
    /\ wk' = [wk EXCEPT ![w] =
          IF IsProcessed(redisUp, processed, Rid(w))
          THEN [@ EXCEPT !.pc = AfterDuplicate, !.outcome = "duplicate",
                         !.ledger = LedgerAnswer(redisUp)]
          ELSE [@ EXCEPT !.pc = "insert", !.ledger = LedgerAnswer(redisUp)]]
    /\ UNCHANGED <<now, norm, expired, cbVars, tplVars, queue, dlq, published, wcb, email_logs,
                   nextLogId, processed, transportCalls,
                   sentTransitions>>

\* _process_email_async: the EmailLog row is added and committed; dbUp is
\* whether "async with get_db()" yields a session and the commit goes
\* through (get_db is a bare async generator, db/main.py:40-48: where it is
\* not accepted as a context manager every such block raises, which is the
\* behaviour with dbUp always FALSE)
InsertLog(w, dbUp) ==
    /\ wk[w].pc = "insert"
    /\ IF ~dbUp \/ LogUniqueViolation(email_logs, Rid(w))
       THEN /\ wk' = [wk EXCEPT ![w] =
                  [@ EXCEPT !.pc = AfterInsertFailure, !.outcome = "error",
                            !.err = IF dbUp THEN "integrity" ELSE "db"]]
            /\ UNCHANGED <<email_logs, nextLogId>>
       ELSE /\ email_logs' = email_logs \cup {NewEmailLog(nextLogId, Rid(w))}
            /\ nextLogId' = nextLogId + 1
            /\ wk' = [wk EXCEPT ![w] =
                  [@ EXCEPT !.pc = "send", !.log_id = nextLogId, !.wrote = TRUE]]
    /\ UNCHANGED <<now, norm, expired, cbVars, tplVars, queue, dlq, published, wcb, processed, transportCalls, sentTransitions>>

\* email_sender.send_email: circuit_breaker.call_async(_send_email_async);
\* ok is whether aiosmtplib.send succeeds
Send(w, ok) ==
    /\ wk[w].pc = "send"
    /\ LET r == CheckCircuitState(wcb[w], now)
       IN  IF r.raised
           THEN /\ wk' = [wk EXCEPT ![w] =
                      [@ EXCEPT !.pc = AfterCircuitOpen,
                                !.outcome = "circuit_open",
                                !.err = "circuit_open"]]
                /\ UNCHANGED <<wcb, transportCalls>>
           ELSE /\ transportCalls' =
                      [transportCalls EXCEPT ![Rid(w)] = @ + 1]
                /\ IF ok
                   THEN /\ wcb' = [wcb EXCEPT ![w] = OnSuccess(r.cb, now)]
                        /\ wk' = [wk EXCEPT ![w] = [@ EXCEPT !.pc = "mark_sent"]]
                   ELSE /\ wcb' = [wcb EXCEPT ![w] = OnFailure(r.cb, now)]
                        /\ wk' = [wk EXCEPT ![w] =
                              [@ EXCEPT !.pc = "fail_update",
                                        !.outcome = "transport_failed",
                                        !.err = "smtp"]]
    /\ UNCHANGED <<now, norm, expired, cbVars, tplVars, queue, dlq, published, email_logs,
                   nextLogId, processed, sentTransitions>>

\* _process_email_async: db.get(EmailLog, log_id), status = SENT, commit
MarkSent(w, dbUp) ==
    /\ wk[w].pc = "mark_sent"
    /\ IF ~dbUp
       THEN /\ wk' = [wk EXCEPT ![w] =
                  [@ EXCEPT !.pc = "fail_update", !.outcome = "error",
                            !.err = "db"]]
            /\ UNCHANGED <<email_logs, sentTransitions>>
       ELSE /\ email_logs' =
                  { IF r.id = wk[w].log_id THEN [r EXCEPT !.status = SENT] ELSE r
                    : r \in email_logs }
            /\ sentTransitions' = [sentTransitions EXCEPT ![Rid(w)] = @ + 1]
            /\ wk' = [wk EXCEPT ![w] =
                  [@ EXCEPT !.pc = "mark_processed", !.wrote = TRUE]]
    /\ UNCHANGED <<now, norm, expired, cbVars, tplVars, queue, dlq, published, wcb, nextLogId,
                   processed, transportCalls>>

\* _process_email_async: redis_client.mark_as_processed, then return True
MarkProcessed(w, redisUp) ==
    /\ wk[w].pc = "mark_processed"
    /\ processed' = MarkAsProcessed(redisUp, processed, Rid(w))
    /\ wk' = [wk EXCEPT ![w] = [@ EXCEPT !.pc = "ack", !.outcome = "sent",
                                         !.ledger = LedgerAnswer(redisUp)]]
    /\ UNCHANGED <<now, norm, expired, cbVars, tplVars, queue, dlq, published, wcb, email_logs,
                   nextLogId, transportCalls, sentTransitions>>

\* _process_email_async, except Exception: the row of the request_id, when
\* there is one and the database answers, becomes FAILED with retry_count + 1;
\* then return False
FailUpdate(w, dbUp) ==
    /\ wk[w].pc = "fail_update"
    /\ LET rows == LogsOf(email_logs, Rid(w))
       IN  IF dbUp /\ rows # {}
           THEN /\ email_logs' =
                      { IF r \in rows THEN MarkFailed(r, wk[w].err) ELSE r
                        : r \in email_logs }
                /\ wk' = [wk EXCEPT ![w] =
                      [@ EXCEPT !.pc = "handle_failure", !.wrote = TRUE]]
           ELSE /\ wk' = [wk EXCEPT ![w] = [@ EXCEPT !.pc = "handle_failure"]]
                /\ UNCHANGED email_logs
    /\ UNCHANGED <<now, norm, expired, cbVars, tplVars, queue, dlq, published, wcb, nextLogId,
                   processed, transportCalls, sentTransitions>>

\* _handle_failure: the row is read, the count is overwritten, and the message
\* goes to email.failed.queue only when that count reaches max_retry_attempts;
\* a database error propagates to process_message's except clause
HandleFailure(w, dbUp) ==
    /\ wk[w].pc = "handle_failure"
    /\ IF ~dbUp
       THEN /\ wk' = [wk EXCEPT ![w] = [@ EXCEPT !.pc = "reject"]]
            /\ UNCHANGED dlq
       ELSE LET rows == LogsOf(email_logs, Rid(w))
                stored == IF rows = {} THEN 0
                          ELSE (CHOOSE r \in rows : TRUE).retry_count
            IN  /\ dlq' = IF RetryCountForDecision(stored) >= max_retry_attempts
                          THEN Append(dlq, wk[w].msg)
                          ELSE dlq
                /\ wk' = [wk EXCEPT ![w] = [@ EXCEPT !.pc = "ack"]]
    /\ UNCHANGED <<now, norm, expired, cbVars, tplVars, queue, published, wcb, email_logs,
                   nextLogId, processed, transportCalls,
                   sentTransitions>>

\* the key processed:<request_id>, written with setex and a time to live,
\* expires; how long a message waits between two steps is not bounded, so
\* the expiry can fall between any two steps
Expire(rid) ==
    /\ rid \in processed
    /\ processed' = processed \ {rid}
    /\ expired' = expired \cup {rid}
    /\ UNCHANGED <<now, norm, cbVars, tplVars, queue, dlq, published, wk, wcb,
                   email_logs, nextLogId, transportCalls, sentTransitions>>

\* process_message, except Exception: message.reject(requeue=True)
Reject(w) ==
    /\ wk[w].pc = "reject"
    /\ queue' = <<wk[w].msg>> \o queue
    /\ wk' = [wk EXCEPT ![w] = [@ EXCEPT !.pc = "ack", !.disp = "requeued"]]
    /\ UNCHANGED <<now, norm, expired, cbVars, tplVars, dlq, published, wcb, email_logs,
                   nextLogId, processed, transportCalls,
                   sentTransitions>>

\* start_consuming: "async with message.process()" ends and acknowledges the
\* message; acknowledging a message that was already rejected raises, which
\* ends the consuming loop
Ack(w) ==
    /\ wk[w].pc = "ack"
    /\ wk' = [wk EXCEPT ![w] =
          IF wk[w].disp = "requeued"
          THEN [@ EXCEPT !.pc = "dead"]
          ELSE [@ EXCEPT !.pc = "done", !.disp = "acked"]]
    /\ UNCHANGED <<now, norm, expired, cbVars, tplVars, queue, dlq, published, wcb, email_logs,
                   nextLogId, processed, transportCalls,
                   sentTransitions>>

\* start_consuming: the loop goes on to the next message
LoopNext(w) ==
    /\ wk[w].pc = "done"
    /\ wk' = [wk EXCEPT ![w] = IdleWorker]
    /\ UNCHANGED <<now, norm, expired, cbVars, tplVars, queue, dlq, published, wcb, email_logs,
                   nextLogId, processed, transportCalls,
                   sentTransitions>>

NextPipe ==
    \/ Tick
    \/ \E m \in Payloads : Publish(m)
    \/ \E w \in Workers : Receive(w)
    \/ \E w \in Workers, redisUp \in BOOLEAN : CheckProcessed(w, redisUp)
    \/ \E w \in Workers, dbUp \in BOOLEAN : InsertLog(w, dbUp)
    \/ \E w \in Workers, ok \in BOOLEAN : Send(w, ok)
    \/ \E w \in Workers, dbUp \in BOOLEAN : MarkSent(w, dbUp)
    \/ \E w \in Workers, redisUp \in BOOLEAN : MarkProcessed(w, redisUp)
    \/ \E w \in Workers, dbUp \in BOOLEAN : FailUpdate(w, dbUp)
    \/ \E w \in Workers, dbUp \in BOOLEAN : HandleFailure(w, dbUp)
    \/ \E w \in Workers : Reject(w)
    \/ \E w \in Workers : Ack(w)
    \/ \E w \in Workers : LoopNext(w)
    \/ \E rid \in RequestIds : Expire(rid)

SpecPipe == Init /\ [][NextPipe]_vars

\* a message body is normalised by to_direct_email_request, and validated
\* the way process_message validates it
Normalise(m) ==
    /\ norm' = [kind |-> "done", msg |-> m,
                request |-> ToDirectEmailRequest(m),
                accepted |-> ConsumerAccepts(m)]
    /\ UNCHANGED <<now, cbVars, tplVars, queue, dlq, published, wk, wcb,
                   email_logs, nextLogId, processed, expired, transportCalls,
                   sentTransitions>>

NextNorm == \E m \in QueueMessages : Normalise(m)

SpecNorm == Init /\ [][NextNorm]_vars


\* ------------------------------------------------------- consumer: claims

\* the handling of the message taken by w has ended: the message was
\* acknowledged, or the acknowledgement of a rejected message raised
Finished(w) == wk[w].pc \in {"done", "dead"}

\* the EmailLog row of the request_id of the message taken by w
RowOf(w) == CHOOSE r \in LogsOf(email_logs, Rid(w)) : TRUE

\* C3: for every request_id there is at most one transport call and at most
\* one transition of its row to SENT, and the handling of a message whose row
\* was already SENT when it was taken changes no row (it is a no-op)
C3_SecondProcessingIsNoOp ==
    /\ \A rid \in RequestIds :
          transportCalls[rid] <= 1 /\ sentTransitions[rid] <= 1
    /\ \A w \in Workers :
          (Finished(w) /\ wk[w].sentBefore) =>
              /\ ~wk[w].wrote
              /\ \A r \in LogsOf(email_logs, Rid(w)) : r.status = SENT

\* C4: when the handling of a message whose transport call failed has ended,
\* the message was requeued, or it is in email.failed.queue and its row is
\* FAILED with retry_count = max_retry_attempts
C4_FailureRequeuesThenDeadLetters ==
    \A w \in Workers :
        (Finished(w) /\ wk[w].outcome = "transport_failed") =>
            \/ wk[w].disp = "requeued"
            \/ /\ \E i \in 1..Len(dlq) : dlq[i] = wk[w].msg
               /\ \A r \in LogsOf(email_logs, Rid(w)) :
                     r.status = FAILED /\ r.retry_count = max_retry_attempts

\* C9: from the moment the breaker refuses the send of the message taken by w
\* (CircuitBreakerOpenError), the row inserted for it stays PROCESSING with
\* retry_count 0 and no error_message
C9_CircuitOpenLeavesRowProcessing ==
    \A w \in Workers :
        wk[w].outcome = "circuit_open" =>
            /\ LogsOf(email_logs, Rid(w)) # {}
            /\ \A r \in LogsOf(email_logs, Rid(w)) :
                  /\ r.id = wk[w].log_id
                  /\ r.status = PROCESSING
                  /\ r.retry_count = 0
                  /\ r.error_message = ""

\* C9 witness: the handling of a message refused by the open breaker has
\* ended, after two transport failures of other messages were recorded on
\* their rows
C9_Witness ==
    \E w \in Workers :
        /\ Finished(w)
        /\ wk[w].outcome = "circuit_open"
        /\ RowOf(w).status = PROCESSING
        /\ wcb[w].state = OPEN
        /\ \E r \in email_logs : r.status = FAILED /\ r.retry_count = 1

\* C10: when the handling of a message refused by the open breaker has ended,
\* the message was requeued: it was not acknowledged and is not in
\* email.failed.queue
C10_CircuitOpenRequeues ==
    \A w \in Workers :
        (Finished(w) /\ wk[w].outcome = "circuit_open") =>
            /\ wk[w].disp = "requeued"
            /\ \A i \in 1..Len(dlq) : dlq[i] # wk[w].msg


\* the message taken by w is in email.failed.queue
DeadLettered(w) == \E i \in 1..Len(dlq) : dlq[i] = wk[w].msg

\* C11: a message is acknowledged only if its row is SENT, it was suppressed
\* as a duplicate, or it was published to email.failed.queue; when the
\* handling of a message ends in any other way the message was requeued and
\* not acknowledged
C11_NoMessageSilentlyDropped ==
    \A w \in Workers :
        /\ wk[w].disp = "acked" =>
              \/ wk[w].outcome = "sent" /\ RowOf(w).status = SENT
              \/ wk[w].outcome = "duplicate"
              \/ DeadLettered(w)
        /\ (Finished(w) /\ wk[w].outcome \notin {"sent", "duplicate"}
                /\ ~DeadLettered(w))
              => wk[w].disp = "requeued"


\* ------------------------------------------- breaker: claims C12 .. C18

\* C12: a HalfOpen breaker has recorded fewer than half_open_attempts
\* successes, and a call outcome moves it from HalfOpen to Closed only as the
\* success that brings the successes recorded in this HalfOpen period to
\* half_open_attempts; on closing failure_count and success_count are 0
C12_ClosesAfterHalfOpenAttemptsSuccesses ==
    /\ [](cb.state = HALF_OPEN =>
              hoSuccesses < half_open_attempts /\ cb.success_count = hoSuccesses)
    /\ [][ (cb.state = HALF_OPEN /\ cb'.state = CLOSED /\ ev'.kind # "reset")
           => ( /\ ev'.kind = "success"
                /\ hoSuccesses' = half_open_attempts
                /\ cb'.failure_count = 0
                /\ cb'.success_count = 0 ) ]_vars

\* C12 witness: the breaker has just closed on the success that completed
\* the HalfOpen period
C12_Witness ==
    /\ cb.state = CLOSED
    /\ ev.kind = "success"
    /\ hoSuccesses = half_open_attempts
    /\ cb.last_state_change_time = now
    /\ now >= timeout


\* C13: a failure recorded while the breaker is HalfOpen moves it to Open, and
\* in that Open state failure_count and success_count are both 0
C13_ProbeFailureOpensWithZeroCounters ==
    [][ (cb.state = HALF_OPEN /\ ev'.bit # ev.bit /\ ev'.kind = "failure")
        => ( /\ cb'.state = OPEN
             /\ cb'.failure_count = 0
             /\ cb'.success_count = 0 ) ]_vars


\* C14: when the breaker is Open and now - last_failure_time >= timeout, a
\* call attempt is not rejected: it moves the breaker to HalfOpen with
\* failure_count and success_count 0 and the wrapped operation is started
C14_TimeoutElapsedAdmitsAsHalfOpen ==
    [][ ( /\ cb.state = OPEN
          /\ now - cb.last_failure_time >= timeout
          /\ ev'.bit # ev.bit
          /\ ev'.kind \in {"admitted", "rejected"} )
        => ( /\ ev'.kind = "admitted"
             /\ callers[ev'.caller] = "idle"
             /\ callers'[ev'.caller] = "running"
             /\ cb'.state = HALF_OPEN
             /\ cb'.failure_count = 0
             /\ cb'.success_count = 0 ) ]_vars

\* C14 witness: the call that found the timeout elapsed was admitted and is
\* running, the breaker is HalfOpen since this instant
C14_Witness ==
    /\ ev.kind = "admitted"
    /\ callers[ev.caller] = "running"
    /\ cb.state = HALF_OPEN
    /\ hoAdmitted = 1
    /\ cb.last_state_change_time = now
    /\ now - cb.last_failure_time >= timeout


\* C15: in Closed a recorded success leaves the breaker Closed with
\* failure_count 0, a recorded failure increments failure_count by one and
\* opens the breaker exactly when the count reaches failure_threshold, which
\* is when failure_threshold failures were recorded with no success between
C15_ClosedCountsConsecutiveFailures ==
    /\ [](cb.state = CLOSED =>
              cb.failure_count = consec /\ consec < failure_threshold)
    /\ [][ (cb.state = CLOSED /\ ev'.bit # ev.bit) =>
             /\ ev'.kind = "success" =>
                   cb'.state = CLOSED /\ cb'.failure_count = 0
             /\ ev'.kind = "failure" =>
                   /\ cb'.failure_count = cb.failure_count + 1
                   /\ (cb'.state = OPEN) <=> (consec' >= failure_threshold)
                   /\ cb'.state \in {CLOSED, OPEN}
             /\ cb'.state = OPEN =>
                   ev'.kind = "failure" /\ consec' = failure_threshold ]_vars

\* C15 witness: a breaker that never changed state recorded a failure and
\* then a success: it is Closed with failure_count 0
C15_Witness ==
    /\ cb.state = CLOSED
    /\ ev.kind = "success"
    /\ cb.failure_count = 0
    /\ cb.last_failure_time > 0
    /\ cb.last_state_change_time = 0
    /\ openedFrom = "none"


\* C16: with concurrent callers of one breaker, the calls admitted during one
\* HalfOpen period never exceed half_open_attempts
C16_HalfOpenAdmitsAtMostHalfOpenAttempts ==
    cb.state = HALF_OPEN => hoAdmitted <= half_open_attempts


\* C17: an admitted call whose operation returns gives that result to its
\* caller; an admitted call whose operation raises records the failure
\* (failure_count + 1, last_failure_time = now, the transition to Open
\* applied when due) and raises the operation's own error to its caller,
\* never CircuitBreakerOpenError
C17_AdmittedCallPassesOutcomeThrough ==
    [][ (ev'.bit # ev.bit /\ ev'.kind \in {"success", "failure"}) =>
          /\ callers[ev'.caller] = "running"
          /\ callers'[ev'.caller] = "idle"
          /\ ev'.out = ev'.op
          /\ ev'.kind = "success" => ev'.out \in OpResults
          /\ ev'.kind = "failure" =>
                /\ ev'.out \in OpErrors
                /\ ev'.out # "CircuitBreakerOpenError"
                /\ cb'.failure_count = cb.failure_count + 1
                /\ cb'.last_failure_time = now
                /\ cb.state = HALF_OPEN => cb'.state = OPEN
                /\ (cb.state = CLOSED
                      /\ cb.failure_count + 1 >= failure_threshold)
                      => cb'.state = OPEN ]_vars

\* C17 witness: the operation of an admitted call raised SMTPException, the
\* failure opened the breaker and the caller got SMTPException
C17_Witness ==
    /\ ev.kind = "failure"
    /\ ev.op = "SMTPException"
    /\ ev.out = "SMTPException"
    /\ cb.state = OPEN
    /\ cb.last_failure_time = now
    /\ now > 0


\* C18: reset() called in any state leaves the breaker Closed with
\* failure_count 0 and success_count 0, and a call attempted in the state
\* reset() left is admitted, however recent the last failure
C18_ResetClosesAndAdmits ==
    /\ [][ (ev'.bit # ev.bit /\ ev'.kind = "reset") =>
             /\ cb'.state = CLOSED
             /\ cb'.failure_count = 0
             /\ cb'.success_count = 0 ]_vars
    /\ [][ (ev.kind = "reset" /\ ev'.bit # ev.bit
              /\ ev'.kind \in {"admitted", "rejected"}) =>
             /\ ev'.kind = "admitted"
             /\ callers'[ev'.caller] = "running" ]_vars

\* C18 witness: reset() was called on an Open breaker whose timeout had not
\* elapsed
C18_Witness ==
    /\ ev.kind = "reset"
    /\ ev.from = OPEN
    /\ now - cb.last_failure_time < timeout
    /\ cb.state = CLOSED


\* ------------------------------------------- consumer: claims C19, C20

\* C19: when the handling of a message that failed with a non-circuit error
\* has ended, the message was requeued if the retry_count stored in its row
\* is below max_retry_attempts, and otherwise it is in email.failed.queue and
\* was acknowledged
C19_RetryDecisionFromStoredCount ==
    \A w \in Workers :
        (Finished(w) /\ wk[w].outcome \in {"transport_failed", "error"}
            /\ LogsOf(email_logs, Rid(w)) # {}) =>
            IF RowOf(w).retry_count < max_retry_attempts
            THEN wk[w].disp = "requeued"
            ELSE DeadLettered(w) /\ wk[w].disp = "acked"


\* C20: when is_processed answers that the ledger marks the request_id of the
\* message taken by w as done, the handling of that message creates and
\* changes no row of email_logs, makes no transport call and publishes
\* nothing, and it ends with the message acknowledged (the key was in Redis
\* at the check; it may expire while the message is being acknowledged)
C20_DuplicateIsAcknowledgedNoOp ==
    /\ [](\A w \in Workers :
            wk[w].outcome = "duplicate" =>
                /\ Rid(w) \in processed \cup expired
                /\ wk[w].ledger = "up"
                /\ ~wk[w].wrote
                /\ wk[w].pc \in {"ack", "done"}
                /\ wk[w].pc = "done" => wk[w].disp = "acked")
    /\ [][ (\E w \in Workers : wk'[w].outcome = "duplicate" /\ wk'[w] # wk[w]) =>
              UNCHANGED <<email_logs, nextLogId, transportCalls,
                          sentTransitions, dlq, wcb, processed>> ]_vars

\* C20 witness: a second delivery of a sent request_id was suppressed by the
\* ledger and acknowledged
C20_Witness ==
    \E w \in Workers :
        /\ wk[w].pc = "done"
        /\ wk[w].outcome = "duplicate"
        /\ wk[w].disp = "acked"
        /\ wk[w].sentBefore
        /\ RowOf(w).status = SENT
        /\ transportCalls[Rid(w)] = 1


\* ------------------------------------------- consumer: claims C21 .. C26

\* C21: a message that does not validate (no usable recipient) is published
\* to email.failed.queue and is never put back on email.queue
C21_MalformedIsDeadLetteredNotRequeued ==
    \A w \in Workers :
        wk[w].outcome = "malformed" =>
            /\ wk[w].disp # "requeued"
            /\ Finished(w) => DeadLettered(w)


\* C22: when the handling of a message whose send succeeded has ended with an
\* acknowledgement, its row is SENT with sent_at stamped and the ledger marks
\* its request_id as done
C22_SuccessStampsSentAtAndMarksLedger ==
    \A w \in Workers :
        (wk[w].outcome = "sent" /\ wk[w].disp = "acked") =>
            /\ RowOf(w).status = SENT
            /\ RowOf(w).sent_at # NULL
            /\ Rid(w) \in processed


\* C23: once the except handler has run for a message whose transport call
\* failed, the row inserted for it is FAILED with retry_count 1 (one more
\* than before), the error message recorded and last_error_at stamped
C23_FailureRecordsCountMessageAndTime ==
    \A w \in Workers :
        (wk[w].outcome = "transport_failed" /\ wk[w].pc # "fail_update") =>
            /\ RowOf(w).status = FAILED
            /\ RowOf(w).retry_count = 1
            /\ RowOf(w).error_message = wk[w].err
            /\ RowOf(w).last_error_at # NULL


\* C24: the status of a row never moves backwards: a PROCESSING row may become
\* SENT or FAILED, a FAILED row may become PROCESSING, and a SENT row keeps
\* its status
C24_StatusNeverMovesBackwards ==
    [][ \A r \in email_logs : \A r2 \in email_logs' :
          (r2.id = r.id /\ r2.status # r.status) =>
              \/ r.status = PROCESSING /\ r2.status \in {SENT, FAILED}
              \/ r.status = FAILED /\ r2.status = PROCESSING ]_vars


\* C25: every row of email_logs has retry_count <= max_retry_attempts
C25_RetryCountWithinBudget ==
    \A r \in email_logs : r.retry_count <= max_retry_attempts


\* C26: whenever Redis holds processed:<request_id>, the row of that
\* request_id is SENT
C26_LedgerEntryImpliesSent ==
    \A rid \in processed :
        /\ LogsOf(email_logs, rid) # {}
        /\ \A r \in LogsOf(email_logs, rid) : r.status = SENT


\* ------------------------------------- template store: claims C27 .. C29

\* the rows a step adds to email_templates
AddedRows == { r \in templates' : \A o \in templates : o.id # r.id }

\* C27: create_template fails as a duplicate, leaving the store unchanged,
\* exactly when a current row exists for its (code, language); otherwise it
\* persists one row with version 1 and is_current = TRUE whose variables are
\* the placeholder names found in its subject, body_html and body_text
C27_CreateFailsIffCurrentExists ==
    [][ createResult' # createResult =>
          /\ createResult'.kind # "ok" <=> createResult'.hadCurrent
          /\ createResult'.hadCurrent =>
                /\ createResult'.kind = "duplicate"
                /\ UNCHANGED <<templates, history>>
          /\ ~createResult'.hadCurrent =>
                /\ Cardinality(AddedRows) = 1
                /\ \A r \in AddedRows :
                      /\ r.template_code = createResult'.code
                      /\ r.language = createResult'.language
                      /\ r.version = 1
                      /\ r.is_current
                      /\ r.variables = ExtractVariables(
                            AllText(r.subject, r.body_html, r.body_text)) ]_vars


\* C28: templates are identified by (code, language): a create_template for a
\* pair that has no row succeeds whatever rows other pairs have, and no step
\* changes the rows of two pairs
C28_PairsAreIndependent ==
    [][ /\ (createResult' # createResult /\ ~createResult'.hadRows)
              => createResult'.kind = "ok"
        /\ \A c1, c2 \in Codes, l1, l2 \in Langs :
              <<c1, l1>> # <<c2, l2>> =>
                 \/ RowsOf(templates', c1, l1) = RowsOf(templates, c1, l1)
                 \/ RowsOf(templates', c2, l2) = RowsOf(templates, c2, l2)
      ]_vars


\* C29: an update_template that found the current row of version v and ran to
\* its end has stored one history snapshot holding version v with the old
\* subject, bodies and variables, and has inserted a current row of version
\* v + 1 whose unpatched fields are the old row's and whose variables are
\* extracted from the merged fields
C29_UpdateSnapshotsAndInsertsNextVersion ==
    [][ \A s \in Sessions :
          (upd[s].pc = "flipped" /\ upd'[s].pc = "idle"
              /\ updOutcome'.kind # "crashed") =>
            LET c == upd[s].cur
                patch == upd[s].patch
            IN  /\ Cardinality(history' \ history) = 1
                /\ \A h \in history' \ history :
                      /\ h.template_code = c.template_code
                      /\ h.version = c.version
                      /\ h.subject = c.subject
                      /\ h.body_html = c.body_html
                      /\ h.body_text = c.body_text
                      /\ h.variables = c.variables
                /\ Cardinality(AddedRows) = 1
                /\ \A r \in AddedRows :
                      /\ r.template_code = c.template_code
                      /\ r.language = c.language
                      /\ r.version = c.version + 1
                      /\ r.is_current
                      /\ r.subject = OrElse(patch.subject, c.subject)
                      /\ r.body_html = OrElse(patch.body_html, c.body_html)
                      /\ r.body_text = OrElse(patch.body_text, c.body_text)
                      /\ r.variables = ExtractVariables(
                            AllText(r.subject, r.body_html, r.body_text))
      ]_vars


\* ---------------------------------------- queue normalisation: claim C30

\* the first of the values that is present and not empty, else the default
FirstNonEmpty(values, default) ==
    IF \E i \in DOMAIN values : ~Falsy(values[i])
    THEN values[CHOOSE i \in DOMAIN values :
                   /\ ~Falsy(values[i])
                   /\ \A j \in 1..(i - 1) : Falsy(values[j])]
    ELSE default

\* the normalised request takes each field from the first non-empty key in
\* the fixed order
NormalisedInOrder ==
    LET m == norm.msg
        recipient == FirstNonEmpty(<<m.to_email, m.user_email, m.email>>, Absent)
    IN  IF recipient = Absent
        THEN norm.request.error = "ValueError"
        ELSE /\ norm.request.error = ""
             /\ norm.request.to_email = recipient
             /\ norm.request.subject =
                   FirstNonEmpty(<<m.subject, m.title>>, "Notification")
             /\ norm.request.content =
                   FirstNonEmpty(<<m.content, m.message, m.body>>,
                                 "You have a new notification")

\* C30: normalisation resolves recipient, subject and content in the fixed
\* order, and the consumer accepts every message whose recipient can be
\* resolved, also when it is carried only under user_email or email
C30_NormalisedInOrderAndAccepted ==
    norm.kind = "done" =>
        /\ NormalisedInOrder
        /\ norm.request.error = "" => norm.accepted


\* ------------------------------------------- consumer: claims C31 .. C38

\* the message carries a template reference that render_template would
\* refuse: no current row of that code exists (Template not found)
TemplateRenderFails(m) ==
    /\ m.template_code # ""
    /\ \A lang \in Langs : CurrentRows(templates, m.template_code, lang) = {}

\* C31: for a message whose template reference cannot be rendered no
\* transport call is made, and when its handling has ended its row is FAILED,
\* the message was not requeued and it is in email.failed.queue
C31_RenderFailureIsDeadLettered ==
    \A w \in Workers :
        (wk[w].msg.valid /\ TemplateRenderFails(wk[w].msg)) =>
            /\ wk[w].pc \notin {"mark_sent", "mark_processed"}
            /\ wk[w].outcome \notin {"sent", "transport_failed"}
            /\ Finished(w) =>
                  /\ wk[w].disp # "requeued"
                  /\ DeadLettered(w)
                  /\ \A r \in LogsOf(email_logs, Rid(w)) : r.status = FAILED


\* C32: a transport call for a request_id is made only while a committed row
\* of that request_id is in status PROCESSING, and a request_id that has had
\* a transport call has a committed row
C32_RowCommittedBeforeSend ==
    /\ [](\A rid \in RequestIds :
             transportCalls[rid] > 0 => LogsOf(email_logs, rid) # {})
    /\ [][\A rid \in RequestIds :
             transportCalls'[rid] # transportCalls[rid] =>
                 \E r \in email_logs :
                     /\ r.request_id = rid
                     /\ r.status = PROCESSING]_vars

\* C32 witness: the transport was called once for the request_id, whose row
\* this delivery committed and which is still PROCESSING
C32_Witness ==
    \E w \in Workers :
        /\ wk[w].pc = "mark_sent"
        /\ transportCalls[Rid(w)] = 1
        /\ RowOf(w).id = wk[w].log_id
        /\ RowOf(w).status = PROCESSING


\* C33: when the handling of a delivery passes the idempotency check for a
\* request_id whose row is FAILED and which has no ledger entry, the step
\* that follows keeps exactly one row of that request_id, leaves it
\* PROCESSING and goes on to the transport send (the database answering)
C33_FailedRowIsReusedAndResent ==
    [][\A w \in Workers :
          ( /\ wk[w].pc = "insert"
            /\ wk'[w].pc # "insert"
            /\ wk'[w].err # "db"
            /\ Rid(w) \notin processed
            /\ LogsOf(email_logs, Rid(w)) # {}
            /\ \A r \in LogsOf(email_logs, Rid(w)) : r.status = FAILED )
          =>
          ( /\ Cardinality(LogsOf(email_logs', Rid(w))) = 1
            /\ \A r \in LogsOf(email_logs', Rid(w)) : r.status = PROCESSING
            /\ wk'[w].pc = "send" )]_vars


\* C34: for a request_id whose Redis key has expired, the idempotency check
\* lets the delivery through and the step after it goes on to the transport
\* send (the database answering)
C34_ExpiredEntryLeadsToNewAttempt ==
    [][\A w \in Workers :
          (Rid(w) \in expired /\ Rid(w) \notin processed) =>
              /\ (wk[w].pc = "check" /\ wk'[w].pc # "check")
                     => wk'[w].pc = "insert"
              /\ (wk[w].pc = "insert" /\ wk'[w].pc # "insert"
                                      /\ wk'[w].err # "db")
                     => wk'[w].pc = "send"]_vars


\* C35: whenever the handling of a message has ended with an error
\* (validation, persistence, transport or failure handling) the consuming
\* loop is alive and goes on to the next message
C35_WorkerLoopSurvivesErrors ==
    \A w \in Workers :
        (Finished(w) /\ wk[w].outcome \notin {"sent", "duplicate"}) =>
            /\ wk[w].pc = "done"
            /\ ENABLED LoopNext(w)

\* process_message called message.reject(requeue=True) for the message of w
RejectIssued(w) == wk[w].disp = "requeued"

\* message.process() called message.ack() for the message of w
AckIssued(w) == wk[w].pc \in {"done", "dead"}

\* C36: when the handling of a message has ended, exactly one of reject and
\* ack was issued for it
C36_ExactlyOneDisposition ==
    \A w \in Workers :
        Finished(w) => (RejectIssued(w) /\ ~AckIssued(w))
                       \/ (AckIssued(w) /\ ~RejectIssued(w))


\* -------------------------------------------------- templates: claim C37

\* C37: for every (code, language) there is at most one row with
\* is_current = TRUE and no two rows with the same version, in every state,
\* those left by two update_template calls that read the same current row
\* before either wrote included
C37_InterleavedUpdatesKeepRowsConsistent ==
    \A code \in Codes, lang \in Langs :
        /\ Cardinality(CurrentRows(templates, code, lang)) <= 1
        /\ \A r1, r2 \in RowsOf(templates, code, lang) :
              r1.version = r2.version => r1.id = r2.id

\* C37 witness: two update_template calls selected the same current row, both
\* committed it with is_current = FALSE, and one of them has run to its end
C37_Witness ==
    \E s1, s2 \in Sessions :
        /\ s1 # s2
        /\ upd[s1].pc = "idle"
        /\ upd[s2].pc = "flipped"
        /\ updOutcome.kind = "insert_failed"
        /\ updOutcome.code = upd[s2].cur.template_code
        /\ updOutcome.language = upd[s2].cur.language
        /\ upd[s2].cur.is_current
        /\ \E r \in templates : r.id = upd[s2].cur.id /\ ~r.is_current


\* ---------------------------------------------------- consumer: claim C38

\* C38: when Redis is unavailable for the idempotency check the delivery goes
\* on to the insert exactly as for a request_id never seen, whether or not
\* its key exists; when Redis is unavailable for mark_as_processed nothing is
\* raised: the key set is unchanged and the delivery ends as sent
C38_LedgerFailsOpen ==
    [][\A w \in Workers :
          /\ (wk[w].pc = "check" /\ wk'[w].pc # "check"
                                 /\ wk'[w].ledger = "down") =>
                 /\ wk'[w].pc = "insert"
                 /\ wk'[w].outcome = ""
                 /\ processed' = processed
          /\ (wk[w].pc = "mark_processed" /\ wk'[w].pc # "mark_processed"
                                          /\ wk'[w].ledger = "down") =>
                 /\ wk'[w].pc = "ack"
                 /\ wk'[w].outcome = "sent"
                 /\ processed' = processed]_vars

\* C38 witness: the check was made with Redis unavailable for a request_id
\* whose key exists, and the delivery is at the insert
C38_Witness ==
    \E w \in Workers :
        /\ wk[w].pc = "insert"
        /\ wk[w].ledger = "down"
        /\ Rid(w) \in processed


\* ------------------------------------------- circuit breaker: C39, C40

\* C39: in every reachable state, CLOSED implies failure_count below
\* failure_threshold and success_count = 0, and success_count is below
\* half_open_attempts
C39_CounterInvariants ==
    /\ cb.state = CLOSED =>
          /\ cb.failure_count < failure_threshold
          /\ cb.success_count = 0
    /\ cb.success_count < half_open_attempts


\* C39 witness: the breaker closed after half_open_attempts successes in
\* HALF_OPEN and has since recorded failure_threshold - 1 failures
C39_Witness ==
    /\ cb.state = CLOSED
    /\ hoSuccesses = half_open_attempts
    /\ cb.failure_count = failure_threshold - 1


\* C40: the outcome of a call that was awaiting its operation when the
\* breaker opened and that completes while the breaker is OPEN leaves the
\* state OPEN and leaves last_failure_time, from which the time of the next
\* HALF_OPEN probe is counted, as it was
C40_LateOutcomeKeepsOpenPeriod ==
    [][(/\ cb.state = OPEN
        /\ ev'.bit # ev.bit
        /\ ev'.kind \in {"success", "failure"})
       => /\ cb'.state = OPEN
          /\ cb'.last_failure_time = cb.last_failure_time]_vars

====
